---- MODULE Spec2Model ----
(***************************************************************************)
(* The analysis submission workflow of the Dashboard component             *)
(* (src/frontend/src/components/Dashboard.jsx): the React state of one     *)
(* mounted Dashboard, the requests it has in flight, and the part of the   *)
(* server those requests read and write.                                   *)
(*                                                                         *)
(* The session handling of the App component (src/unnamed/part_000), the   *)
(* Landing page's credential form (src/unnamed/part_001) and AuthCallback  *)
(* (src/frontend/src/components/AuthCallback.jsx): the App's React state,  *)
(* the session cookie, axios' default Authorization header, the location   *)
(* and the authentication requests in flight.                              *)
(*                                                                         *)
(* Spec and SpecForm follow one mounted Dashboard of a resolved session,   *)
(* SpecSession follows the session from the page load without the inside   *)
(* of the Dashboard, SpecApp follows both for a page loaded on /app.       *)
(*                                                                         *)
(* Strings whose characters the code inspects (file names, the text body)  *)
(* are sequences of one-character strings.  null (no selected file) is     *)
(* NoFile.                                                                 *)
(***************************************************************************)
EXTENDS Integers, Sequences, FiniteSets, TLC

VARIABLES
    activeTab,       \* useState('prompts')
    prompts,         \* useState([]): ids of the prompts the client has loaded
    analyses,        \* useState([]): the history cache, a sequence of analysis ids
    selectedFile,    \* useState(null): the name of the selected file, or NoFile
    analysisForm,    \* useState({prompt_id: '', ai_model: 'gpt-5'})
    analyzing,       \* useState(false)
    inputMode,       \* useState('upload')
    textInput,       \* useState('')
    analyzeReqs,     \* analyze requests issued and not yet answered
    listReqs,        \* GET /documents/analyses requests not yet delivered, in issue order
    promptsReq,      \* GET /prompts of the mount effect: "sent" or "done"
    serverAnalyses,  \* the server's stored analyses (ids), oldest first
    downloadReqs,    \* ids of the analyses whose download is in flight, in issue order
    nextReq,         \* number of the next analyze request issued on this page
    last,            \* the last handler that ran, the toast it raised, what it handled
    route,           \* window.location.pathname
    fragment,        \* window.location.hash, a sequence of tokens
    loading,         \* App: useState(true)
    user,            \* App: useState(null)
    sessionToken,    \* App: useState(null)
    cookie,          \* the value of the session_token cookie in document.cookie
    authHeader,      \* axios.defaults.headers.common['Authorization']
    appProbe,        \* GET /auth/me of App's mount effect: "sent" or "done"
    callback,        \* AuthCallback: unmounted, or the request its effect awaits
    loginReq,        \* Landing: the credential request in flight, or "none"
    logoutReqs,      \* number of POST /auth/logout requests in flight
    halted,          \* window.location.href was assigned: the page is being replaced
    meCalls,         \* the components that issued a GET /auth/me since the page loaded
    exchangeCalls,   \* X-Session-ID headers of the POST /auth/session-data requests issued
    logoutClicks,    \* clicks on the Logout button since the page loaded
    slast,           \* the last session handler that ran and the toast it raised
    orphans          \* requests in flight whose Dashboard has been unmounted

\* the Dashboard and its server
dvars == <<activeTab, prompts, analyses, selectedFile, analysisForm, analyzing,
           inputMode, textInput, analyzeReqs, listReqs, promptsReq,
           serverAnalyses, downloadReqs, nextReq, last>>

\* the session
svars == <<route, fragment, loading, user, sessionToken, cookie, authHeader,
           appProbe, callback, loginReq, logoutReqs, halted, meCalls,
           exchangeCalls, logoutClicks, slast>>

vars == <<dvars, svars, orphans>>

-----------------------------------------------------------------------------
(* Bounds of the model *)

\* analyze requests one Dashboard issues in a run
MaxRequests == 2

\* clicks on the Logout button in a run
MaxLogouts == 2

\* clicks on the Logout button in a run that also follows the Dashboard
MaxAppLogouts == 1

\* downloads in flight at one time
MaxDownloads == 1

-----------------------------------------------------------------------------
(* Values *)

NoFile == <<>>

Files == { <<"a", ".", "p", "d", "f">>,
           <<"B", ".", "P", "D", "F">>,
           <<"c", ".", "t", "x", "t">>,
           <<"p", "d", "f">> }

Texts == { <<>>, <<" ">>, <<"\n", "x">> }

ServerPrompts == {"p1"}

Models == {"gpt-5", "claude-4"}

Tabs == {"prompts", "analyze", "analyses"}

DefaultForm == [prompt_id |-> "", ai_model |-> "gpt-5"]

NoReq == [id |-> 0]

\* null, as the value of user, sessionToken and of handleLogin's token argument
Null == "NULL"

\* the users and session tokens the server answers with
Users == {"u1"}

Tokens == {"tok1", "tok2"}

\* document.cookie holds no session_token
NoCookie == "ABSENT"

\* axios' defaults hold no Authorization header
NoHeader == <<>>

Routes == {"/", "/dashboard", "/app"}

\* location.hash at page load: empty, "#session_id=a&x", "#session_id=&a"
Fragments == { <<>>,
               <<"#", "session_id=", "a", "&", "x">>,
               <<"#", "session_id=", "&", "a">> }

\* AuthCallback is not rendered
Unmounted == [state |-> "unmounted"]

-----------------------------------------------------------------------------
(* String functions of the JavaScript runtime the handlers call *)

UpperToLower ==
    ("A" :> "a") @@ ("B" :> "b") @@ ("C" :> "c") @@ ("D" :> "d") @@
    ("F" :> "f") @@ ("P" :> "p") @@ ("T" :> "t") @@ ("X" :> "x")

toLowerCase(s) ==
    [i \in DOMAIN s |-> IF s[i] \in DOMAIN UpperToLower THEN UpperToLower[s[i]] ELSE s[i]]

endsWith(s, suffix) ==
    /\ Len(s) >= Len(suffix)
    /\ SubSeq(s, Len(s) - Len(suffix) + 1, Len(s)) = suffix

WhiteSpace == {" ", "\t", "\n", "\r"}

RECURSIVE trimStart(_)
trimStart(s) ==
    IF s # <<>> /\ Head(s) \in WhiteSpace THEN trimStart(Tail(s)) ELSE s

RECURSIVE trimEnd(_)
trimEnd(s) ==
    IF s # <<>> /\ s[Len(s)] \in WhiteSpace
    THEN trimEnd(SubSeq(s, 1, Len(s) - 1))
    ELSE s

trim(s) == trimEnd(trimStart(s))

DotPdf == <<".", "p", "d", "f">>

-----------------------------------------------------------------------------
(* Initial state: the Dashboard has mounted and its effect has issued the  *)
(* two loads.                                                              *)

\* the App has found an existing session and renders the Dashboard
SessionResolved ==
    /\ route = "/dashboard"
    /\ fragment = <<>>
    /\ loading = FALSE
    /\ user = "u1"
    /\ sessionToken = Null
    /\ cookie = NoCookie
    /\ authHeader = NoHeader
    /\ appProbe = "done"
    /\ callback = Unmounted
    /\ loginReq = "none"
    /\ logoutReqs = 0
    /\ halted = FALSE
    /\ meCalls = <<"App">>
    /\ exchangeCalls = <<>>
    /\ logoutClicks = 0
    /\ slast = [op |-> "probeOk", toast |-> "", user |-> "u1", token |-> Null]

Init ==
    /\ activeTab = "prompts"
    /\ prompts = {}
    /\ analyses = <<>>
    /\ selectedFile = NoFile
    /\ analysisForm = DefaultForm
    /\ analyzing = FALSE
    /\ inputMode = "upload"
    /\ textInput = <<>>
    /\ analyzeReqs = {}
    /\ listReqs = <<[after |-> 0, state |-> "sent", data |-> <<>>]>>
    /\ promptsReq = "sent"
    /\ serverAnalyses = <<>>
    /\ downloadReqs = <<>>
    /\ nextReq = 1
    /\ last = [op |-> "mount", toast |-> "", req |-> NoReq]
    /\ SessionResolved
    /\ orphans = {}

-----------------------------------------------------------------------------
(* Helpers *)

Did(op, toast, req) == [op |-> op, toast |-> toast, req |-> req]

RemoveAt(q, i) == SubSeq(q, 1, i - 1) \o SubSeq(q, i + 1, Len(q))

Range(q) == {q[i] : i \in DOMAIN q}

\* the <Navigate> elements of the route table, for App state u
Routed(r, u) ==
    IF u # Null
    THEN IF r = "/" THEN "/dashboard" ELSE r
    ELSE IF r = "/app" THEN "/" ELSE r

\* what App renders at location r with user u and loading l
View(r, u, l) ==
    IF l THEN "Loading"
    ELSE IF u # Null THEN "Dashboard"
    ELSE IF Routed(r, u) = "/dashboard" THEN "AuthCallback"
    ELSE "Landing"

CurrentView == View(route, user, loading)

\* the Dashboard is rendered and the page is not being replaced
DashboardMounted == CurrentView = "Dashboard" /\ ~halted

\* the React state a handler's closure reads
Snapshot ==
    [inputMode |-> inputMode, selectedFile |-> selectedFile,
     analysisForm |-> analysisForm, textInput |-> textInput]

-----------------------------------------------------------------------------
(* handleFileSelect *)

\* a suffix test that forgets the dot
IsPdfNameNoDot(name) == endsWith(toLowerCase(name), <<"p", "d", "f">>)

IsPdfName(name) == endsWith(toLowerCase(name), DotPdf)

\* a handleFileSelect that drops the previous selection when it rejects a file
handleFileSelectClears(file) ==
    IF file # NoFile
    THEN IF ~IsPdfName(file)
         THEN /\ last' = Did("selectFile", "Please select a PDF file", NoReq)
              /\ selectedFile' = NoFile
         ELSE /\ selectedFile' = file
              /\ last' = Did("selectFile", "", NoReq)
    ELSE /\ last' = Did("selectFile", "", NoReq)
         /\ UNCHANGED selectedFile

handleFileSelect(file) ==
    IF file # NoFile
    THEN IF ~IsPdfName(file)
         THEN /\ last' = Did("selectFile", "Please select a PDF file", NoReq)
              /\ UNCHANGED selectedFile
         ELSE /\ selectedFile' = file
              /\ last' = Did("selectFile", "", NoReq)
    ELSE /\ last' = Did("selectFile", "", NoReq)
         /\ UNCHANGED selectedFile

-----------------------------------------------------------------------------
(* handleAnalyzeDocument, up to its await *)

\* an upload validation that forgets the prompt
UploadInvalidNoPrompt(s) == s.inputMode = "upload" /\ s.selectedFile = NoFile

UploadInvalid(s) ==
    s.inputMode = "upload" /\ (s.selectedFile = NoFile \/ s.analysisForm.prompt_id = "")

TextInvalid(s) ==
    s.inputMode = "text" /\ (trim(s.textInput) = <<>> \/ s.analysisForm.prompt_id = "")

\* JSON.stringify of the analysis form: its keys in insertion order, each
\* with its value
JSONStringify(form) ==
    << <<"prompt_id", form.prompt_id>>, <<"ai_model", form.ai_model>> >>

\* a payload builder that posts the text to the upload endpoint
BuildPayloadOneEndpoint(s) ==
    IF s.inputMode = "upload"
    THEN [url |-> "/documents/analyze",
          contentType |-> "multipart/form-data",
          file |-> s.selectedFile,
          analysis_data |-> JSONStringify(s.analysisForm)]
    ELSE [url |-> "/documents/analyze",
          contentType |-> "application/json",
          body |-> [prompt_id |-> s.analysisForm.prompt_id,
                    ai_model |-> s.analysisForm.ai_model,
                    text_content |-> s.textInput,
                    document_name |-> "Text Input"]]

\* a payload builder that trims the text it sends
BuildPayloadTrims(s) ==
    IF s.inputMode = "upload"
    THEN [url |-> "/documents/analyze",
          contentType |-> "multipart/form-data",
          file |-> s.selectedFile,
          analysis_data |-> JSONStringify(s.analysisForm)]
    ELSE [url |-> "/documents/analyze-text",
          contentType |-> "application/json",
          body |-> [prompt_id |-> s.analysisForm.prompt_id,
                    ai_model |-> s.analysisForm.ai_model,
                    text_content |-> trim(s.textInput),
                    document_name |-> "Text Input"]]

\* the request body built from the closure's state before the await
BuildPayload(s) ==
    IF s.inputMode = "upload"
    THEN [url |-> "/documents/analyze",
          contentType |-> "multipart/form-data",
          file |-> s.selectedFile,
          analysis_data |-> JSONStringify(s.analysisForm)]
    ELSE [url |-> "/documents/analyze-text",
          contentType |-> "application/json",
          body |-> [prompt_id |-> s.analysisForm.prompt_id,
                    ai_model |-> s.analysisForm.ai_model,
                    text_content |-> s.textInput,
                    document_name |-> "Text Input"]]

NewRequest == [id |-> nextReq, payload |-> BuildPayload(Snapshot), snap |-> Snapshot]

\* a handleAnalyzeDocument that issues its request without raising the flag
handleAnalyzeDocumentNoFlag ==
    IF UploadInvalid(Snapshot)
    THEN /\ last' = Did("submit", "Please select a file and prompt", NoReq)
         /\ UNCHANGED <<analyzing, analyzeReqs, nextReq>>
    ELSE IF TextInvalid(Snapshot)
    THEN /\ last' = Did("submit", "Please enter text content and select a prompt", NoReq)
         /\ UNCHANGED <<analyzing, analyzeReqs, nextReq>>
    ELSE /\ nextReq <= MaxRequests
         /\ UNCHANGED analyzing
         /\ analyzeReqs' = analyzeReqs \cup {NewRequest}
         /\ nextReq' = nextReq + 1
         /\ last' = Did("submit", "", NewRequest)

handleAnalyzeDocument ==
    IF UploadInvalid(Snapshot)
    THEN /\ last' = Did("submit", "Please select a file and prompt", NoReq)
         /\ UNCHANGED <<analyzing, analyzeReqs, nextReq>>
    ELSE IF TextInvalid(Snapshot)
    THEN /\ last' = Did("submit", "Please enter text content and select a prompt", NoReq)
         /\ UNCHANGED <<analyzing, analyzeReqs, nextReq>>
    ELSE /\ nextReq <= MaxRequests
         /\ analyzing' = TRUE
         /\ analyzeReqs' = analyzeReqs \cup {NewRequest}
         /\ nextReq' = nextReq + 1
         /\ last' = Did("submit", "", NewRequest)

-----------------------------------------------------------------------------
(* What the rendered page lets the user do *)

\* a button that stays enabled while a submission is in flight
AnalyzeBtnDisabledNoGuard ==
    \/ (inputMode = "upload" /\ (selectedFile = NoFile \/ analysisForm.prompt_id = ""))
    \/ (inputMode = "text" /\ (trim(textInput) = <<>> \/ analysisForm.prompt_id = ""))

\* the disabled attribute of the analyze button
AnalyzeBtnDisabled ==
    \/ analyzing
    \/ (inputMode = "upload" /\ (selectedFile = NoFile \/ analysisForm.prompt_id = ""))
    \/ (inputMode = "text" /\ (trim(textInput) = <<>> \/ analysisForm.prompt_id = ""))

SetActiveTab(tab) ==
    /\ DashboardMounted
    /\ activeTab' = tab
    /\ last' = Did("setActiveTab", "", NoReq)
    /\ UNCHANGED <<prompts, analyses, selectedFile, analysisForm, analyzing, inputMode,
                   textInput, analyzeReqs, listReqs, promptsReq, serverAnalyses, nextReq>>
    /\ UNCHANGED <<downloadReqs, svars, orphans>>

\* an upload-mode button that leaves the selected file alone
ClickUploadModeKeepsFile ==
    /\ DashboardMounted
    /\ activeTab = "analyze"
    /\ inputMode' = "upload"
    /\ textInput' = <<>>
    /\ last' = Did("setInputMode", "", [id |-> 0, snap |-> Snapshot])
    /\ UNCHANGED <<activeTab, prompts, analyses, selectedFile, analysisForm, analyzing,
                   analyzeReqs, listReqs, promptsReq, serverAnalyses, nextReq>>
    /\ UNCHANGED <<downloadReqs, svars, orphans>>

ClickUploadMode ==
    /\ DashboardMounted
    /\ activeTab = "analyze"
    /\ inputMode' = "upload"
    /\ textInput' = <<>>
    /\ selectedFile' = NoFile
    /\ last' = Did("setInputMode", "", [id |-> 0, snap |-> Snapshot])
    /\ UNCHANGED <<activeTab, prompts, analyses, analysisForm, analyzing,
                   analyzeReqs, listReqs, promptsReq, serverAnalyses, nextReq>>
    /\ UNCHANGED <<downloadReqs, svars, orphans>>

\* a text-mode button that leaves the selected file alone
ClickTextModeKeepsFile ==
    /\ DashboardMounted
    /\ activeTab = "analyze"
    /\ inputMode' = "text"
    /\ textInput' = <<>>
    /\ last' = Did("setInputMode", "", [id |-> 0, snap |-> Snapshot])
    /\ UNCHANGED <<activeTab, prompts, analyses, selectedFile, analysisForm, analyzing,
                   analyzeReqs, listReqs, promptsReq, serverAnalyses, nextReq>>
    /\ UNCHANGED <<downloadReqs, svars, orphans>>

ClickTextMode ==
    /\ DashboardMounted
    /\ activeTab = "analyze"
    /\ inputMode' = "text"
    /\ selectedFile' = NoFile
    /\ textInput' = <<>>
    /\ last' = Did("setInputMode", "", [id |-> 0, snap |-> Snapshot])
    /\ UNCHANGED <<activeTab, prompts, analyses, analysisForm, analyzing,
                   analyzeReqs, listReqs, promptsReq, serverAnalyses, nextReq>>
    /\ UNCHANGED <<downloadReqs, svars, orphans>>

\* the file input is rendered in upload mode only
FileInputChange(file) ==
    /\ DashboardMounted
    /\ activeTab = "analyze"
    /\ inputMode = "upload"
    /\ handleFileSelect(file)
    /\ UNCHANGED <<activeTab, prompts, analyses, analysisForm, analyzing, inputMode,
                   textInput, analyzeReqs, listReqs, promptsReq, serverAnalyses, nextReq>>
    /\ UNCHANGED <<downloadReqs, svars, orphans>>

\* the textarea is rendered in text mode only
TextAreaChange(text) ==
    /\ DashboardMounted
    /\ activeTab = "analyze"
    /\ inputMode = "text"
    /\ textInput' = text
    /\ last' = Did("setTextInput", "", NoReq)
    /\ UNCHANGED <<activeTab, prompts, analyses, selectedFile, analysisForm, analyzing,
                   inputMode, analyzeReqs, listReqs, promptsReq, serverAnalyses, nextReq>>
    /\ UNCHANGED <<downloadReqs, svars, orphans>>

PromptSelectChange(value) ==
    /\ DashboardMounted
    /\ activeTab = "analyze"
    /\ value \in prompts
    /\ analysisForm' = [analysisForm EXCEPT !.prompt_id = value]
    /\ last' = Did("setPrompt", "", NoReq)
    /\ UNCHANGED <<activeTab, prompts, analyses, selectedFile, analyzing, inputMode,
                   textInput, analyzeReqs, listReqs, promptsReq, serverAnalyses, nextReq>>
    /\ UNCHANGED <<downloadReqs, svars, orphans>>

ModelSelectChange(value) ==
    /\ DashboardMounted
    /\ activeTab = "analyze"
    /\ analysisForm' = [analysisForm EXCEPT !.ai_model = value]
    /\ last' = Did("setModel", "", NoReq)
    /\ UNCHANGED <<activeTab, prompts, analyses, selectedFile, analyzing, inputMode,
                   textInput, analyzeReqs, listReqs, promptsReq, serverAnalyses, nextReq>>
    /\ UNCHANGED <<downloadReqs, svars, orphans>>

\* a click on the analyze button submits the form unless the button is disabled
ClickAnalyzeBtn ==
    /\ DashboardMounted
    /\ activeTab = "analyze"
    /\ IF AnalyzeBtnDisabled
       THEN /\ last' = Did("clickDisabled", "", NoReq)
            /\ UNCHANGED <<analyzing, analyzeReqs, nextReq>>
       ELSE handleAnalyzeDocument
    /\ UNCHANGED <<activeTab, prompts, analyses, selectedFile, analysisForm, inputMode,
                   textInput, listReqs, promptsReq, serverAnalyses>>
    /\ UNCHANGED <<downloadReqs, svars, orphans>>

\* a submit event dispatched at the form itself runs the handler whatever the button shows
SubmitEvent ==
    /\ DashboardMounted
    /\ activeTab = "analyze"
    /\ handleAnalyzeDocument
    /\ UNCHANGED <<activeTab, prompts, analyses, selectedFile, analysisForm, inputMode,
                   textInput, listReqs, promptsReq, serverAnalyses>>
    /\ UNCHANGED <<downloadReqs, svars, orphans>>

-----------------------------------------------------------------------------
(* The network and the continuations after each await *)

\* a request whose body is read from the component's state when it is sent
WirePayloadLive(r) == BuildPayload(Snapshot)

\* the body the server reads for request r: the one axios.post was handed
WirePayload(r) == r.payload

Outcomes == {"ok", "detail", "nodetail"}

\* the id the server gives the next analysis it stores
NewAnalysisId == Len(serverAnalyses) + 1

\* what the continuation of request r was resumed with
Answered(r, analysis) ==
    [id |-> r.id, snap |-> r.snap, wire |-> WirePayload(r), analysis |-> analysis]

\* a success path that does not reload the history
loadAnalysesSkipped(after) == listReqs

\* loadAnalyses, up to its await
loadAnalyses(after) == Append(listReqs, [after |-> after, state |-> "sent", data |-> <<>>])

\* a success path that keeps the prompt and model selection
SuccessPathKeepsForm(r) ==
    /\ selectedFile' = NoFile
    /\ textInput' = <<>>
    /\ listReqs' = loadAnalyses(NewAnalysisId)
    /\ activeTab' = "analyses"
    /\ last' = Did("analyzeOk", "Content analyzed successfully!", Answered(r, NewAnalysisId))
    /\ UNCHANGED analysisForm

\* the rest of the try block, run when the request succeeded
SuccessPath(r) ==
    /\ selectedFile' = NoFile
    /\ textInput' = <<>>
    /\ analysisForm' = DefaultForm
    /\ listReqs' = loadAnalyses(NewAnalysisId)
    /\ activeTab' = "analyses"
    /\ last' = Did("analyzeOk", "Content analyzed successfully!", Answered(r, NewAnalysisId))

\* a catch block that also resets the inputs
FailurePathClears(r, outcome) ==
    /\ last' = Did("analyzeFailed",
                   IF outcome = "detail" THEN "detail" ELSE "Analysis failed",
                   Answered(r, 0))
    /\ selectedFile' = NoFile
    /\ textInput' = <<>>
    /\ UNCHANGED <<analysisForm, listReqs, activeTab>>

\* the catch block: the server's detail if the error carries one, else the fallback
FailurePath(r, outcome) ==
    /\ last' = Did("analyzeFailed",
                   IF outcome = "detail" THEN "detail" ELSE "Analysis failed",
                   Answered(r, 0))
    /\ UNCHANGED <<selectedFile, textInput, analysisForm, listReqs, activeTab>>

\* the flag reset at the end of the try block instead of in a finally
FinallyOnSuccessOnly(outcome) == analyzing' = IF outcome = "ok" THEN FALSE ELSE analyzing

\* the finally block
Finally(outcome) == analyzing' = FALSE

\* the server answers analyze request r and handleAnalyzeDocument resumes
AnalyzeResponse(r, outcome) ==
    /\ DashboardMounted
    /\ r \in analyzeReqs
    /\ analyzeReqs' = analyzeReqs \ {r}
    /\ IF outcome = "ok"
       THEN /\ serverAnalyses' = Append(serverAnalyses, NewAnalysisId)
            /\ SuccessPath(r)
       ELSE /\ UNCHANGED serverAnalyses
            /\ FailurePath(r, outcome)
    /\ Finally(outcome)
    /\ UNCHANGED <<prompts, analyses, inputMode, promptsReq, nextReq>>
    /\ UNCHANGED <<downloadReqs, svars, orphans>>

\* a loadAnalyses whose catch also drops the default Authorization header
ListFailureDropsHeader(i) ==
    /\ DashboardMounted
    /\ i \in DOMAIN listReqs
    /\ listReqs' = RemoveAt(listReqs, i)
    /\ last' = Did("loadAnalysesFailed", "Failed to load analyses", [id |-> listReqs[i].after])
    /\ authHeader' = NoHeader
    /\ UNCHANGED <<activeTab, prompts, analyses, selectedFile, analysisForm, analyzing,
                   inputMode, textInput, analyzeReqs, promptsReq, serverAnalyses,
                   downloadReqs, nextReq>>
    /\ UNCHANGED <<route, fragment, loading, user, sessionToken, cookie, appProbe,
                   callback, loginReq, logoutReqs, halted, meCalls, exchangeCalls,
                   logoutClicks, slast, orphans>>

\* the server answers the i-th outstanding list request with its stored analyses
ListServe(i) ==
    /\ DashboardMounted
    /\ i \in DOMAIN listReqs
    /\ listReqs[i].state = "sent"
    /\ listReqs' = [listReqs EXCEPT ![i] = [@ EXCEPT !.state = "ok", !.data = serverAnalyses]]
    /\ UNCHANGED <<activeTab, prompts, analyses, selectedFile, analysisForm, analyzing,
                   inputMode, textInput, analyzeReqs, promptsReq, serverAnalyses,
                   nextReq, last>>
    /\ UNCHANGED <<downloadReqs, svars, orphans>>

\* loadAnalyses resumes with the answer to the i-th outstanding list request
ListResponse(i) ==
    /\ DashboardMounted
    /\ i \in DOMAIN listReqs
    /\ listReqs[i].state = "ok"
    /\ listReqs' = RemoveAt(listReqs, i)
    /\ analyses' = listReqs[i].data
    /\ last' = Did("loadAnalysesOk", "", [id |-> listReqs[i].after])
    /\ UNCHANGED <<activeTab, prompts, selectedFile, analysisForm, analyzing,
                   inputMode, textInput, analyzeReqs, promptsReq, serverAnalyses, nextReq>>
    /\ UNCHANGED <<downloadReqs, svars, orphans>>

\* the i-th outstanding list request fails and loadAnalyses resumes in its catch
ListFailure(i) ==
    /\ DashboardMounted
    /\ i \in DOMAIN listReqs
    /\ listReqs' = RemoveAt(listReqs, i)
    /\ last' = Did("loadAnalysesFailed", "Failed to load analyses", [id |-> listReqs[i].after])
    /\ UNCHANGED <<activeTab, prompts, analyses, selectedFile, analysisForm, analyzing,
                   inputMode, textInput, analyzeReqs, promptsReq, serverAnalyses, nextReq>>
    /\ UNCHANGED <<downloadReqs, svars, orphans>>

\* loadPrompts resumes
PromptsResponse(ok) ==
    /\ DashboardMounted
    /\ promptsReq = "sent"
    /\ promptsReq' = "done"
    /\ IF ok
       THEN /\ prompts' = ServerPrompts
            /\ last' = Did("loadPromptsOk", "", NoReq)
       ELSE /\ last' = Did("loadPromptsFailed", "Failed to load prompts", NoReq)
            /\ UNCHANGED prompts
    /\ UNCHANGED <<activeTab, analyses, selectedFile, analysisForm, analyzing, inputMode,
                   textInput, analyzeReqs, listReqs, serverAnalyses, nextReq>>
    /\ UNCHANGED <<downloadReqs, svars, orphans>>

-----------------------------------------------------------------------------
(* The history tab: handleCopyResponse and handleDownloadAnalysis *)

\* the cards of the history tab: one per entry of the history cache
HistoryCards == IF activeTab = "analyses" THEN Range(analyses) ELSE {}

\* the name the downloaded blob is saved under
DownloadName(analysisId) == <<"analysis_", analysisId, ".txt">>

\* handleCopyResponse: the clipboard write is started and not awaited, and
\* the toast is raised
handleCopyResponse(analysisId) ==
    /\ DashboardMounted
    /\ analysisId \in HistoryCards
    /\ last' = Did("copy", "Response copied to clipboard!", [id |-> analysisId])
    /\ UNCHANGED <<activeTab, prompts, analyses, selectedFile, analysisForm, analyzing,
                   inputMode, textInput, analyzeReqs, listReqs, promptsReq,
                   serverAnalyses, downloadReqs, nextReq>>
    /\ UNCHANGED <<svars, orphans>>

\* handleDownloadAnalysis up to its await: the GET is issued
handleDownloadAnalysis(analysisId) ==
    /\ DashboardMounted
    /\ analysisId \in HistoryCards
    /\ Len(downloadReqs) < MaxDownloads
    /\ downloadReqs' = Append(downloadReqs, analysisId)
    /\ last' = Did("download", "", [id |-> analysisId])
    /\ UNCHANGED <<activeTab, prompts, analyses, selectedFile, analysisForm, analyzing,
                   inputMode, textInput, analyzeReqs, listReqs, promptsReq,
                   serverAnalyses, nextReq>>
    /\ UNCHANGED <<svars, orphans>>

\* a handleDownloadAnalysis that shares the busy flag of the submission and
\* clears it when it resumes
DownloadResponseClearsBusy(i, outcome) ==
    /\ DashboardMounted
    /\ i \in DOMAIN downloadReqs
    /\ downloadReqs' = RemoveAt(downloadReqs, i)
    /\ analyzing' = FALSE
    /\ last' = IF outcome = "ok"
               THEN Did("downloadOk", "Analysis downloaded!",
                        [id |-> downloadReqs[i], file |-> DownloadName(downloadReqs[i])])
               ELSE Did("downloadFailed", "Failed to download analysis",
                        [id |-> downloadReqs[i]])
    /\ UNCHANGED <<activeTab, prompts, analyses, selectedFile, analysisForm,
                   inputMode, textInput, analyzeReqs, listReqs, promptsReq,
                   serverAnalyses, nextReq>>
    /\ UNCHANGED <<svars, orphans>>

\* handleDownloadAnalysis resumes: the blob is saved, or the catch runs
DownloadResponse(i, outcome) ==
    /\ DashboardMounted
    /\ i \in DOMAIN downloadReqs
    /\ downloadReqs' = RemoveAt(downloadReqs, i)
    /\ last' = IF outcome = "ok"
               THEN Did("downloadOk", "Analysis downloaded!",
                        [id |-> downloadReqs[i], file |-> DownloadName(downloadReqs[i])])
               ELSE Did("downloadFailed", "Failed to download analysis",
                        [id |-> downloadReqs[i]])
    /\ UNCHANGED <<activeTab, prompts, analyses, selectedFile, analysisForm, analyzing,
                   inputMode, textInput, analyzeReqs, listReqs, promptsReq,
                   serverAnalyses, nextReq>>
    /\ UNCHANGED <<svars, orphans>>

-----------------------------------------------------------------------------
(* The session: App (part_000), Landing (part_001), AuthCallback *)

SDid(op, toast, u, t) == [op |-> op, toast |-> toast, user |-> u, token |-> t]

\* `${token}` in a template literal
TemplateString(v) == IF v = Null THEN "null" ELSE v

\* fragment.match(/session_id=([^&]+)/): the positions where the pattern matches
MatchAt(f) == {i \in DOMAIN f : f[i] = "session_id=" /\ i < Len(f) /\ f[i + 1] # "&"}

Min(S) == CHOOSE x \in S : \A y \in S : x <= y

\* the longest run of [^&] that starts at position i
RECURSIVE RunFrom(_, _)
RunFrom(f, i) ==
    IF i > Len(f) \/ f[i] = "&" THEN <<>> ELSE <<f[i]>> \o RunFrom(f, i + 1)

\* sessionMatch[1] at the leftmost match
sessionId(f) == RunFrom(f, Min(MatchAt(f)) + 1)

\* an effect that probes whatever the fragment holds
processSessionIdProbes ==
    /\ callback' = [state |-> "probe"]
    /\ meCalls' = Append(meCalls, "AuthCallback")
    /\ UNCHANGED exchangeCalls

\* AuthCallback's effect, run when it mounts: the exchange if the fragment
\* holds a session_id, the probe otherwise
processSessionId ==
    IF MatchAt(fragment) # {}
    THEN /\ callback' = [state |-> "exchange", sessionId |-> sessionId(fragment)]
         /\ exchangeCalls' = Append(exchangeCalls, sessionId(fragment))
         /\ UNCHANGED meCalls
    ELSE /\ callback' = [state |-> "probe"]
         /\ meCalls' = Append(meCalls, "AuthCallback")
         /\ UNCHANGED exchangeCalls

\* App renders again with user u and loading l: the route table redirects,
\* AuthCallback mounts (and its effect runs) or unmounts
Render(u, l) ==
    /\ route' = IF l THEN route ELSE Routed(route, u)
    /\ IF View(route, u, l) = "AuthCallback"
       THEN IF callback = Unmounted
            THEN processSessionId
            ELSE UNCHANGED <<callback, meCalls, exchangeCalls>>
       ELSE /\ callback' = Unmounted
            /\ UNCHANGED <<meCalls, exchangeCalls>>

\* a handleLogin that leaves axios' defaults alone
handleLoginNoHeader(userData, token) ==
    /\ user' = userData
    /\ sessionToken' = token
    /\ cookie' = TemplateString(token)
    /\ UNCHANGED authHeader

\* a handleLogin that keeps the token in memory and in the header only
handleLoginNoCookie(userData, token) ==
    /\ user' = userData
    /\ sessionToken' = token
    /\ authHeader' = <<"Bearer", TemplateString(token)>>
    /\ UNCHANGED cookie

\* handleLogin(userData, token)
handleLogin(userData, token) ==
    /\ user' = userData
    /\ sessionToken' = token
    /\ cookie' = TemplateString(token)
    /\ authHeader' = <<"Bearer", TemplateString(token)>>

\* a checkExistingSession without the finally: setLoading(false) after a
\* successful probe only
checkExistingSessionNoFinally(ok, u) ==
    /\ ~halted
    /\ appProbe = "sent"
    /\ appProbe' = "done"
    /\ IF ok
       THEN /\ user' = u
            /\ slast' = SDid("probeOk", "", u, Null)
       ELSE /\ UNCHANGED user
            /\ slast' = SDid("probeFailed", "", Null, Null)
    /\ loading' = IF ok THEN FALSE ELSE loading
    /\ Render(user', loading')
    /\ UNCHANGED <<fragment, sessionToken, cookie, authHeader, loginReq, logoutReqs,
                   halted, logoutClicks>>

\* checkExistingSession resumes after GET /auth/me
checkExistingSession(ok, u) ==
    /\ ~halted
    /\ appProbe = "sent"
    /\ appProbe' = "done"
    /\ IF ok
       THEN /\ user' = u
            /\ slast' = SDid("probeOk", "", u, Null)
       ELSE /\ UNCHANGED user
            /\ slast' = SDid("probeFailed", "", Null, Null)
    /\ loading' = FALSE
    /\ Render(user', FALSE)
    /\ UNCHANGED <<fragment, sessionToken, cookie, authHeader, loginReq, logoutReqs,
                   halted, logoutClicks>>

\* Landing: handleGoogleLogin leaves the page for the identity provider
handleGoogleLogin ==
    /\ ~halted
    /\ CurrentView = "Landing"
    /\ halted' = TRUE
    /\ slast' = SDid("googleLogin", "", Null, Null)
    /\ UNCHANGED <<route, fragment, loading, user, sessionToken, cookie, authHeader,
                   appProbe, callback, loginReq, logoutReqs, meCalls, exchangeCalls,
                   logoutClicks>>

\* Landing: handleFormSubmit up to its await; the submit buttons are disabled
\* while a request is in flight
handleFormSubmit(isLogin) ==
    /\ ~halted
    /\ CurrentView = "Landing"
    /\ loginReq = "none"
    /\ loginReq' = IF isLogin THEN "/auth/login" ELSE "/auth/register"
    /\ slast' = SDid("formSubmit", "", Null, Null)
    /\ UNCHANGED <<route, fragment, loading, user, sessionToken, cookie, authHeader,
                   appProbe, callback, logoutReqs, halted, meCalls, exchangeCalls,
                   logoutClicks>>

\* a handleFormSubmit whose catch tears the session down
FormResponseClears(outcome, u, t) ==
    /\ ~halted
    /\ loginReq # "none"
    /\ loginReq' = "none"
    /\ IF outcome = "ok"
       THEN /\ handleLogin(u, t)
            /\ slast' = SDid("loginOk", "Successfully logged in!", u, t)
       ELSE /\ slast' = SDid("loginFailed",
                             IF outcome = "detail" THEN "detail" ELSE "Authentication failed",
                             Null, Null)
            /\ cookie' = NoCookie
            /\ authHeader' = NoHeader
            /\ UNCHANGED <<user, sessionToken>>
    /\ Render(user', loading)
    /\ UNCHANGED <<fragment, loading, appProbe, logoutReqs, halted, logoutClicks>>

\* Landing: handleFormSubmit resumes after the credential request
FormResponse(outcome, u, t) ==
    /\ ~halted
    /\ loginReq # "none"
    /\ loginReq' = "none"
    /\ IF outcome = "ok"
       THEN /\ handleLogin(u, t)
            /\ slast' = SDid("loginOk", "Successfully logged in!", u, t)
       ELSE /\ slast' = SDid("loginFailed",
                             IF outcome = "detail" THEN "detail" ELSE "Authentication failed",
                             Null, Null)
            /\ UNCHANGED <<user, sessionToken, cookie, authHeader>>
    /\ Render(user', loading)
    /\ UNCHANGED <<fragment, loading, appProbe, logoutReqs, halted, logoutClicks>>

\* a continuation that skips history.replaceState
ExchangeResponseKeepsFragment(outcome, u, t) ==
    /\ ~halted
    /\ callback.state = "exchange"
    /\ IF outcome = "ok"
       THEN /\ UNCHANGED fragment
            /\ handleLogin(u, t)
            /\ slast' = SDid("exchangeOk", "Successfully logged in!", u, t)
            /\ Render(u, loading)
            /\ UNCHANGED halted
       ELSE /\ slast' = SDid("exchangeFailed", "Authentication failed. Please try again.",
                             Null, Null)
            /\ halted' = TRUE
            /\ route' = "/"
            /\ callback' = [state |-> "redirecting"]
            /\ UNCHANGED <<fragment, user, sessionToken, cookie, authHeader, meCalls,
                           exchangeCalls>>
    /\ UNCHANGED <<loading, appProbe, loginReq, logoutReqs, logoutClicks>>

\* a continuation whose catch sends the exchange again instead of leaving
ExchangeResponseRetries(outcome, u, t) ==
    /\ ~halted
    /\ callback.state = "exchange"
    /\ IF outcome = "ok"
       THEN /\ fragment' = <<>>
            /\ handleLogin(u, t)
            /\ slast' = SDid("exchangeOk", "Successfully logged in!", u, t)
            /\ Render(u, loading)
            /\ UNCHANGED halted
       ELSE /\ slast' = SDid("exchangeFailed", "Authentication failed. Please try again.",
                             Null, Null)
            /\ Len(exchangeCalls) < 3
            /\ exchangeCalls' = Append(exchangeCalls, callback.sessionId)
            /\ UNCHANGED <<fragment, user, sessionToken, cookie, authHeader, meCalls,
                           halted, route, callback>>
    /\ UNCHANGED <<loading, appProbe, loginReq, logoutReqs, logoutClicks>>

\* AuthCallback: processSessionId resumes after POST /auth/session-data
ExchangeResponse(outcome, u, t) ==
    /\ ~halted
    /\ callback.state = "exchange"
    /\ IF outcome = "ok"
       THEN /\ fragment' = <<>>
            /\ handleLogin(u, t)
            /\ slast' = SDid("exchangeOk", "Successfully logged in!", u, t)
            /\ Render(u, loading)
            /\ UNCHANGED halted
       ELSE /\ slast' = SDid("exchangeFailed", "Authentication failed. Please try again.",
                             Null, Null)
            /\ halted' = TRUE
            /\ route' = "/"
            /\ callback' = [state |-> "redirecting"]
            /\ UNCHANGED <<fragment, user, sessionToken, cookie, authHeader, meCalls,
                           exchangeCalls>>
    /\ UNCHANGED <<loading, appProbe, loginReq, logoutReqs, logoutClicks>>

\* AuthCallback: processSessionId resumes after its GET /auth/me
CallbackProbeResponse(ok, u) ==
    /\ ~halted
    /\ callback.state = "probe"
    /\ IF ok
       THEN /\ handleLogin(u, Null)
            /\ slast' = SDid("callbackProbeOk", "Successfully logged in!", u, Null)
            /\ Render(u, loading)
            /\ UNCHANGED halted
       ELSE /\ slast' = SDid("callbackProbeFailed", "", Null, Null)
            /\ halted' = TRUE
            /\ route' = "/"
            /\ callback' = [state |-> "redirecting"]
            /\ UNCHANGED <<user, sessionToken, cookie, authHeader, meCalls, exchangeCalls>>
    /\ UNCHANGED <<fragment, loading, appProbe, loginReq, logoutReqs, logoutClicks>>

\* Dashboard: a click on the Logout button runs handleLogout up to its await
ClickLogout ==
    /\ ~halted
    /\ CurrentView = "Dashboard"
    /\ logoutClicks < MaxLogouts
    /\ logoutClicks' = logoutClicks + 1
    /\ logoutReqs' = logoutReqs + 1
    /\ slast' = SDid("logoutClick", "", Null, Null)
    /\ UNCHANGED <<route, fragment, loading, user, sessionToken, cookie, authHeader,
                   appProbe, callback, loginReq, halted, meCalls, exchangeCalls>>

\* a handleLogout that shows the loading screen again
handleLogoutReloads(ok) ==
    /\ ~halted
    /\ logoutReqs > 0
    /\ logoutReqs' = logoutReqs - 1
    /\ user' = Null
    /\ sessionToken' = Null
    /\ cookie' = NoCookie
    /\ authHeader' = NoHeader
    /\ loading' = TRUE
    /\ slast' = SDid(IF ok THEN "logoutOk" ELSE "logoutFailed", "Successfully logged out!",
                     Null, Null)
    /\ Render(Null, TRUE)
    /\ UNCHANGED <<fragment, appProbe, loginReq, halted, logoutClicks>>

\* a handleLogout whose teardown is inside the try: skipped, with an error
\* notice, when the logout call fails
handleLogoutInsideTry(ok) ==
    /\ ~halted
    /\ logoutReqs > 0
    /\ logoutReqs' = logoutReqs - 1
    /\ IF ok
       THEN /\ user' = Null
            /\ sessionToken' = Null
            /\ cookie' = NoCookie
            /\ authHeader' = NoHeader
            /\ slast' = SDid("logoutOk", "Successfully logged out!", Null, Null)
       ELSE /\ slast' = SDid("logoutFailed", "Logout failed", Null, Null)
            /\ UNCHANGED <<user, sessionToken, cookie, authHeader>>
    /\ Render(user', loading)
    /\ UNCHANGED <<fragment, loading, appProbe, loginReq, halted, logoutClicks>>

\* handleLogout resumes after POST /auth/logout, answered or failed
handleLogout(ok) ==
    /\ ~halted
    /\ logoutReqs > 0
    /\ logoutReqs' = logoutReqs - 1
    /\ user' = Null
    /\ sessionToken' = Null
    /\ cookie' = NoCookie
    /\ authHeader' = NoHeader
    /\ slast' = SDid(IF ok THEN "logoutOk" ELSE "logoutFailed", "Successfully logged out!",
                     Null, Null)
    /\ Render(Null, loading)
    /\ UNCHANGED <<fragment, loading, appProbe, loginReq, halted, logoutClicks>>

-----------------------------------------------------------------------------
(* Specifications *)

\* the Dashboard as rendered: every user event goes through an enabled control
Next ==
    \/ \E tab \in Tabs : SetActiveTab(tab)
    \/ ClickUploadMode
    \/ ClickTextMode
    \/ \E file \in Files \cup {NoFile} : FileInputChange(file)
    \/ \E text \in Texts : TextAreaChange(text)
    \/ \E value \in ServerPrompts : PromptSelectChange(value)
    \/ \E value \in Models : ModelSelectChange(value)
    \/ ClickAnalyzeBtn
    \/ \E r \in analyzeReqs, outcome \in Outcomes : AnalyzeResponse(r, outcome)
    \/ \E i \in DOMAIN listReqs : ListServe(i)
    \/ \E i \in DOMAIN listReqs : ListResponse(i)
    \/ \E i \in DOMAIN listReqs : ListFailure(i)
    \/ \E ok \in BOOLEAN : PromptsResponse(ok)

Spec == Init /\ [][Next]_vars

\* the same, with submit events also reaching the form's onSubmit directly
NextForm == Next \/ SubmitEvent

SpecForm == Init /\ [][NextForm]_vars

\* the Dashboard with the copy and download buttons of its history tab
NextHistory ==
    \/ Next
    \/ \E analysisId \in HistoryCards : handleCopyResponse(analysisId)
    \/ \E analysisId \in HistoryCards : handleDownloadAnalysis(analysisId)
    \/ \E i \in DOMAIN downloadReqs, outcome \in Outcomes : DownloadResponse(i, outcome)

SpecHistory == Init /\ [][NextHistory]_vars

\* every request is eventually answered or fails
FairSpec ==
    /\ Spec
    /\ WF_vars(\E r \in analyzeReqs, outcome \in Outcomes : AnalyzeResponse(r, outcome))

\* no Dashboard is rendered
NoDashboard ==
    /\ activeTab = "prompts"
    /\ prompts = {}
    /\ analyses = <<>>
    /\ selectedFile = NoFile
    /\ analysisForm = DefaultForm
    /\ analyzing = FALSE
    /\ inputMode = "upload"
    /\ textInput = <<>>
    /\ analyzeReqs = {}
    /\ listReqs = <<>>
    /\ promptsReq = "done"
    /\ serverAnalyses = <<>>
    /\ downloadReqs = <<>>
    /\ nextReq = 1
    /\ last = [op |-> "none", toast |-> "", req |-> NoReq]

\* the page has loaded: App has mounted and its effect has issued the probe;
\* a session_token cookie may be left from an earlier visit
InitSession ==
    /\ NoDashboard
    /\ route \in Routes
    /\ fragment \in Fragments
    /\ loading = TRUE
    /\ user = Null
    /\ sessionToken = Null
    /\ cookie \in {NoCookie, "tok1"}
    /\ authHeader = NoHeader
    /\ appProbe = "sent"
    /\ callback = Unmounted
    /\ loginReq = "none"
    /\ logoutReqs = 0
    /\ halted = FALSE
    /\ meCalls = <<"App">>
    /\ exchangeCalls = <<>>
    /\ logoutClicks = 0
    /\ slast = SDid("start", "", Null, Null)
    /\ orphans = {}

\* the session alone: what the Dashboard does inside is left out
NextSession ==
    \/ \E ok \in BOOLEAN, u \in Users : checkExistingSession(ok, u) /\ UNCHANGED <<dvars, orphans>>
    \/ handleGoogleLogin /\ UNCHANGED <<dvars, orphans>>
    \/ \E isLogin \in BOOLEAN : handleFormSubmit(isLogin) /\ UNCHANGED <<dvars, orphans>>
    \/ \E outcome \in Outcomes, u \in Users, t \in Tokens :
          FormResponse(outcome, u, t) /\ UNCHANGED <<dvars, orphans>>
    \/ \E outcome \in Outcomes, u \in Users, t \in Tokens :
          ExchangeResponse(outcome, u, t) /\ UNCHANGED <<dvars, orphans>>
    \/ \E ok \in BOOLEAN, u \in Users : CallbackProbeResponse(ok, u) /\ UNCHANGED <<dvars, orphans>>
    \/ ClickLogout /\ UNCHANGED <<dvars, orphans>>
    \/ \E ok \in BOOLEAN : handleLogout(ok) /\ UNCHANGED <<dvars, orphans>>

SpecSession == InitSession /\ [][NextSession]_vars

\* the probe of the mount effect is eventually answered or fails
FairSession ==
    /\ SpecSession
    /\ WF_vars(\E ok \in BOOLEAN, u \in Users : checkExistingSession(ok, u) /\ UNCHANGED <<dvars, orphans>>)

-----------------------------------------------------------------------------
(* The App with its Dashboard: the Dashboard mounts when the route table   *)
(* renders it and unmounts when the user becomes null; a request that is   *)
(* in flight at that moment stays in flight and its continuation still     *)
(* runs, with state setters that no longer have a component to update.     *)

\* the requests the mounted Dashboard has in flight
InFlight ==
    {[kind |-> "analyze", req |-> r] : r \in analyzeReqs}
        \cup {[kind |-> "list", after |-> listReqs[i].after] : i \in DOMAIN listReqs}
        \cup (IF promptsReq = "sent" THEN {[kind |-> "prompts", after |-> 0]} ELSE {})
        \cup {[kind |-> "download", id |-> downloadReqs[i]] : i \in DOMAIN downloadReqs}

\* a Dashboard mounts: initial state, and the mount effect issues the two loads
DashboardMounts ==
    /\ activeTab' = "prompts"
    /\ prompts' = {}
    /\ analyses' = <<>>
    /\ selectedFile' = NoFile
    /\ analysisForm' = DefaultForm
    /\ analyzing' = FALSE
    /\ inputMode' = "upload"
    /\ textInput' = <<>>
    /\ analyzeReqs' = {}
    /\ listReqs' = <<[after |-> 0, state |-> "sent", data |-> <<>>]>>
    /\ promptsReq' = "sent"
    /\ downloadReqs' = <<>>
    /\ last' = Did("mount", "", NoReq)
    /\ UNCHANGED <<serverAnalyses, nextReq, orphans>>

\* the Dashboard unmounts: its state is gone, its requests are still in flight
DashboardUnmounts ==
    /\ orphans' = orphans \cup InFlight
    /\ activeTab' = "prompts"
    /\ prompts' = {}
    /\ analyses' = <<>>
    /\ selectedFile' = NoFile
    /\ analysisForm' = DefaultForm
    /\ analyzing' = FALSE
    /\ inputMode' = "upload"
    /\ textInput' = <<>>
    /\ analyzeReqs' = {}
    /\ listReqs' = <<>>
    /\ promptsReq' = "done"
    /\ downloadReqs' = <<>>
    /\ last' = Did("unmount", "", NoReq)
    /\ UNCHANGED <<serverAnalyses, nextReq>>

\* what a session step does to the Dashboard
DashboardFollows ==
    IF CurrentView # "Dashboard" /\ View(route', user', loading') = "Dashboard"
    THEN DashboardMounts
    ELSE IF CurrentView = "Dashboard" /\ View(route', user', loading') # "Dashboard"
    THEN DashboardUnmounts
    ELSE UNCHANGED <<dvars, orphans>>

\* handleAnalyzeDocument resumes for a request of an unmounted Dashboard: the
\* setters do nothing, the toast and the call of loadAnalyses happen
StaleAnalyzeResponse(o, outcome) ==
    /\ ~halted
    /\ o \in orphans
    /\ o.kind = "analyze"
    /\ IF outcome = "ok"
       THEN /\ serverAnalyses' = Append(serverAnalyses, NewAnalysisId)
            /\ orphans' = (orphans \ {o}) \cup {[kind |-> "list", after |-> NewAnalysisId]}
            /\ last' = Did("analyzeOk", "Content analyzed successfully!",
                           Answered(o.req, NewAnalysisId))
       ELSE /\ orphans' = orphans \ {o}
            /\ last' = Did("analyzeFailed",
                           IF outcome = "detail" THEN "detail" ELSE "Analysis failed",
                           Answered(o.req, 0))
            /\ UNCHANGED serverAnalyses
    /\ UNCHANGED <<activeTab, prompts, analyses, selectedFile, analysisForm, analyzing,
                   inputMode, textInput, analyzeReqs, listReqs, promptsReq,
                   downloadReqs, nextReq>>
    /\ UNCHANGED svars

\* loadAnalyses or loadPrompts resumes for a request of an unmounted Dashboard
StaleLoadResponse(o, ok) ==
    /\ ~halted
    /\ o \in orphans
    /\ o.kind \in {"list", "prompts"}
    /\ orphans' = orphans \ {o}
    /\ last' = IF o.kind = "list"
               THEN Did(IF ok THEN "loadAnalysesOk" ELSE "loadAnalysesFailed",
                        IF ok THEN "" ELSE "Failed to load analyses", [id |-> o.after])
               ELSE Did(IF ok THEN "loadPromptsOk" ELSE "loadPromptsFailed",
                        IF ok THEN "" ELSE "Failed to load prompts", NoReq)
    /\ UNCHANGED <<activeTab, prompts, analyses, selectedFile, analysisForm, analyzing,
                   inputMode, textInput, analyzeReqs, listReqs, promptsReq,
                   serverAnalyses, downloadReqs, nextReq>>
    /\ UNCHANGED svars



\* handleDownloadAnalysis resumes for a request of an unmounted Dashboard: it
\* holds no state setter, so the blob is saved or the catch runs as before
StaleDownloadResponse(o, outcome) ==
    /\ ~halted
    /\ o \in orphans
    /\ o.kind = "download"
    /\ orphans' = orphans \ {o}
    /\ last' = IF outcome = "ok"
               THEN Did("downloadOk", "Analysis downloaded!",
                        [id |-> o.id, file |-> DownloadName(o.id)])
               ELSE Did("downloadFailed", "Failed to download analysis", [id |-> o.id])
    /\ UNCHANGED <<activeTab, prompts, analyses, selectedFile, analysisForm, analyzing,
                   inputMode, textInput, analyzeReqs, listReqs, promptsReq,
                   serverAnalyses, downloadReqs, nextReq>>
    /\ UNCHANGED svars

\* the inputs tried while the App is followed across logins and logouts
AppFiles == { <<"a", ".", "p", "d", "f">> }

AppTexts == { <<"\n", "x">> }

AppModels == {"claude-4"}

AppTokens == {"tok1"}

NextApp ==
    \/ \E tab \in Tabs : SetActiveTab(tab)
    \/ ClickUploadMode
    \/ ClickTextMode
    \/ \E file \in AppFiles : FileInputChange(file)
    \/ \E text \in AppTexts : TextAreaChange(text)
    \/ \E value \in ServerPrompts : PromptSelectChange(value)
    \/ \E value \in AppModels : ModelSelectChange(value)
    \/ ClickAnalyzeBtn
    \/ \E r \in analyzeReqs, outcome \in Outcomes : AnalyzeResponse(r, outcome)
    \/ \E i \in DOMAIN listReqs : ListServe(i)
    \/ \E i \in DOMAIN listReqs : ListResponse(i)
    \/ \E i \in DOMAIN listReqs : ListFailure(i)
    \/ \E ok \in BOOLEAN : PromptsResponse(ok)
    \/ \E ok \in BOOLEAN, u \in Users : checkExistingSession(ok, u) /\ DashboardFollows
    \/ handleGoogleLogin /\ DashboardFollows
    \/ \E isLogin \in BOOLEAN : handleFormSubmit(isLogin) /\ DashboardFollows
    \/ \E outcome \in Outcomes, u \in Users, t \in AppTokens :
          FormResponse(outcome, u, t) /\ DashboardFollows
    \/ logoutClicks < MaxAppLogouts /\ ClickLogout /\ DashboardFollows
    \/ \E ok \in BOOLEAN : handleLogout(ok) /\ DashboardFollows
    \/ \E o \in orphans, outcome \in Outcomes : StaleAnalyzeResponse(o, outcome)
    \/ \E o \in orphans, ok \in BOOLEAN : StaleLoadResponse(o, ok)
    \/ \E analysisId \in HistoryCards : handleCopyResponse(analysisId)
    \/ \E analysisId \in HistoryCards : handleDownloadAnalysis(analysisId)
    \/ \E i \in DOMAIN downloadReqs, outcome \in Outcomes : DownloadResponse(i, outcome)
    \/ \E o \in orphans, outcome \in Outcomes : StaleDownloadResponse(o, outcome)

\* the page has loaded on /app, with no fragment and no cookie: AuthCallback
\* is never rendered on this route
InitApp ==
    /\ InitSession
    /\ route = "/app"
    /\ fragment = <<>>
    /\ cookie = NoCookie

SpecApp == InitApp /\ [][NextApp]_vars

-----------------------------------------------------------------------------
(* Properties *)

\* the current state passes the checks a submission needs
Submittable ==
    /\ analysisForm.prompt_id # ""
    /\ inputMode = "upload" => selectedFile # NoFile
    /\ inputMode = "text" => trim(textInput) # <<>>

\* C1: while a submission is in flight a further submit issues no request: the
\* Dashboard never has two analyze requests outstanding, and it has exactly one
\* whenever it is Submitting.
C1_SecondSubmitRejected ==
    /\ Cardinality(analyzeReqs) <= 1
    /\ analyzing => Cardinality(analyzeReqs) = 1

\* C1 witness: the analyze button was clicked a second time, with a form that
\* would otherwise submit, while the first request was still in flight.
C1_Witness ==
    /\ last.op = "clickDisabled"
    /\ analyzing
    /\ Submittable
    /\ Cardinality(analyzeReqs) = 1

\* C2: a submit that fails the local validation (no prompt, no file in upload
\* mode, text empty after trimming in text mode) issues no request and changes
\* no state: the flag, file, text, prompt, model and mode stay as they were.
C2_InvalidSubmitChangesNothing ==
    [][(~Submittable /\ last'.op = "submit" /\ last' # last) =>
          /\ last'.req = NoReq
          /\ last'.toast # ""
          /\ UNCHANGED <<analyzeReqs, nextReq, analyzing, selectedFile, textInput,
                         analysisForm, inputMode, activeTab, prompts, analyses,
                         listReqs, promptsReq, serverAnalyses>>]_vars

\* C2 witness: a submit of a whitespace-only text with a prompt selected was
\* turned down by the handler.
C2_Witness ==
    /\ last.op = "submit"
    /\ last.req = NoReq
    /\ inputMode = "text"
    /\ textInput = <<" ">>
    /\ analysisForm.prompt_id # ""
    /\ ~analyzing

\* C3: every analyze request issued was started with a prompt selected and, in
\* upload mode, a file named *.pdf (in any letter case), in text mode, a text
\* that is not empty after trimming.
C3_RequestsStartValid ==
    \A r \in analyzeReqs :
        /\ r.snap.analysisForm.prompt_id # ""
        /\ r.snap.inputMode = "upload" =>
              /\ r.snap.selectedFile # NoFile
              /\ endsWith(toLowerCase(r.snap.selectedFile), DotPdf)
        /\ r.snap.inputMode = "text" => trim(r.snap.textInput) # <<>>

\* C3 witness: a request for a file whose suffix is in upper case is in flight.
C3_Witness ==
    \E r \in analyzeReqs :
        /\ r.snap.inputMode = "upload"
        /\ r.snap.selectedFile = <<"B", ".", "P", "D", "F">>

\* C4: right after a click on either mode button, the current mode's included,
\* no file is selected and the text body is empty.
C4_ModeSwitchClearsBoth ==
    last.op = "setInputMode" => (selectedFile = NoFile /\ textInput = <<>>)

\* C4 witness: the upload button was clicked in upload mode with a file selected.
C4_Witness ==
    /\ last.op = "setInputMode"
    /\ last.req.snap.inputMode = "upload"
    /\ last.req.snap.selectedFile # NoFile
    /\ inputMode = "upload"

\* C5: a selected file implies upload mode and a non-empty text body implies
\* text mode, so the two are never both non-empty.
C5_FileXorText ==
    /\ selectedFile # NoFile => inputMode = "upload"
    /\ textInput # <<>> => inputMode = "text"
    /\ ~(selectedFile # NoFile /\ textInput # <<>>)

\* C5 witness: a text is being typed while an upload submission is in flight.
C5_Witness ==
    /\ textInput # <<>>
    /\ \E r \in analyzeReqs : r.snap.inputMode = "upload" /\ r.snap.selectedFile # NoFile

\* C6 as stated: after a successful submission the mode and the prompt and
\* model selection are those the submission was started with.
C6_SelectionRetained ==
    last.op = "analyzeOk" =>
        /\ inputMode = last.req.snap.inputMode
        /\ analysisForm = last.req.snap.analysisForm

\* C6 amended: the success transition leaves the input mode as it is and
\* resets the prompt and model selection to their defaults, with the file and
\* the text body.
C6_SuccessResetsForm ==
    [][(last'.op = "analyzeOk" /\ last' # last) =>
          /\ inputMode' = inputMode
          /\ analysisForm' = DefaultForm
          /\ selectedFile' = NoFile
          /\ textInput' = <<>>]_vars

\* C6 witness: a submission made with a prompt and the second model has
\* succeeded and the form shows no prompt and the first model.
C6_Witness ==
    /\ last.op = "analyzeOk"
    /\ last.req.snap.analysisForm = [prompt_id |-> "p1", ai_model |-> "claude-4"]
    /\ analysisForm = [prompt_id |-> "", ai_model |-> "gpt-5"]
    /\ inputMode = last.req.snap.inputMode

C8_FailurePreservesRequest ==
    [][/\ (last'.op = "analyzeFailed" /\ last' # last) =>
             UNCHANGED <<selectedFile, textInput, analysisForm, inputMode>>
       /\ ((selectedFile # NoFile /\ selectedFile' = NoFile)
             \/ (textInput # <<>> /\ textInput' = <<>>)) =>
             last'.op \in {"analyzeOk", "setInputMode", "setTextInput"}]_vars

\* C8 witness: a submission has failed and the form still holds what was
\* submitted, ready to be submitted again.
C8_Witness ==
    /\ last.op = "analyzeFailed"
    /\ Snapshot = last.req.snap
    /\ selectedFile # NoFile
    /\ ~AnalyzeBtnDisabled

\* C9: a Dashboard that is Submitting eventually is not: the response of the
\* request, success or failure, resets the flag.
C9_LeavesSubmitting == analyzing ~> ~analyzing

\* C9 witness: a submission has failed and the flag is down.
C9_Witness ==
    /\ last.op = "analyzeFailed"
    /\ ~analyzing
    /\ analyzeReqs = {}

\* the body a request started in state snap is to carry
CapturedBy(wire, snap) ==
    IF snap.inputMode = "upload"
    THEN /\ wire.url = "/documents/analyze"
         /\ wire.file = snap.selectedFile
         /\ wire.analysis_data = JSONStringify(snap.analysisForm)
    ELSE /\ wire.url = "/documents/analyze-text"
         /\ wire.body.text_content = snap.textInput
         /\ wire.body.prompt_id = snap.analysisForm.prompt_id
         /\ wire.body.ai_model = snap.analysisForm.ai_model

\* C10: what a request sends is the file, text, prompt, model and mode of the
\* moment submit was called, whatever was edited while it was in flight.
C10_PayloadCapturedAtSubmit ==
    /\ \A r \in analyzeReqs : CapturedBy(WirePayload(r), r.snap)
    /\ last.op \in {"analyzeOk", "analyzeFailed"} => CapturedBy(last.req.wire, last.req.snap)

\* C10 witness: an upload request was answered after the user had switched to
\* text mode, typed a text and chosen the other model.
C10_Witness ==
    /\ last.op = "analyzeFailed"
    /\ last.req.snap.inputMode = "upload"
    /\ inputMode = "text"
    /\ textInput # <<>>
    /\ analysisForm.ai_model # last.req.snap.analysisForm.ai_model

-----------------------------------------------------------------------------
(* Properties of the session *)

\* the state of the session state machine
SessionState ==
    IF loading THEN "Unresolved"
    ELSE IF user # Null THEN "Authenticated"
    ELSE "Unauthenticated"

\* C12: the session state only changes from Unresolved to Unauthenticated or
\* Authenticated (when the probe of the mount effect resumes), from
\* Unauthenticated to Authenticated (a credential login or AuthCallback), and
\* from Authenticated to Unauthenticated (a logout); no step enters Unresolved.
C12_SessionTransitions ==
    [][SessionState' # SessionState =>
          \/ /\ SessionState = "Unresolved"
             /\ SessionState' \in {"Unauthenticated", "Authenticated"}
             /\ slast'.op \in {"probeOk", "probeFailed"}
          \/ /\ SessionState = "Unauthenticated"
             /\ SessionState' = "Authenticated"
             /\ slast'.op \in {"loginOk", "exchangeOk", "callbackProbeOk"}
          \/ /\ SessionState = "Authenticated"
             /\ SessionState' = "Unauthenticated"
             /\ slast'.op \in {"logoutOk", "logoutFailed"}]_vars

\* C12 witness: a session that was resolved to Unauthenticated, became
\* Authenticated through the exchange and Unauthenticated again by a logout.
C12_Witness ==
    /\ exchangeCalls # <<>>
    /\ slast.op = "logoutOk"
    /\ SessionState = "Unauthenticated"

\* C13: checkExistingSession always resumes and leaves Unresolved: after a
\* successful probe the session is Authenticated with the returned user, after
\* a failed one it is Unauthenticated with no user; either way the token stays
\* null, the cookie and the Authorization header are not touched, and the page
\* keeps running.
C13_ResolveSession ==
    /\ [][(appProbe = "sent" /\ appProbe' = "done") =>
            /\ SessionState = "Unresolved"
            /\ slast'.op = "probeOk" =>
                  /\ SessionState' = "Authenticated"
                  /\ user' = slast'.user
            /\ slast'.op # "probeOk" =>
                  /\ SessionState' = "Unauthenticated"
                  /\ user' = Null
            /\ sessionToken' = Null
            /\ cookie' = cookie
            /\ authHeader' = authHeader
            /\ ~halted']_vars
    /\ loading ~> ~loading

\* C13 witness: the probe succeeded while a cookie from an earlier visit was
\* present; the session is Authenticated and the cookie is still there.
C13_Witness ==
    /\ slast.op = "probeOk"
    /\ SessionState = "Authenticated"
    /\ user = slast.user
    /\ sessionToken = Null
    /\ cookie = "tok1"
    /\ authHeader = NoHeader

\* C14 as claimed: GET /auth/me is issued exactly once per page load.
C14_ProbeIssuedOnce == Len(meCalls) = 1

\* C14: App's mount effect issues GET /auth/me exactly once per page load,
\* whatever the route and the outcome; every further GET /auth/me is issued by
\* AuthCallback, once each time it mounts with no session_id in the fragment.
C14_AppProbesOnce ==
    /\ [](/\ meCalls[1] = "App"
          /\ \A i \in DOMAIN meCalls : i > 1 => meCalls[i] = "AuthCallback")
    /\ [][meCalls' # meCalls =>
            /\ meCalls' = Append(meCalls, "AuthCallback")
            /\ callback = Unmounted
            /\ callback'.state = "probe"
            /\ MatchAt(fragment) = {}
            /\ View(route', user', loading') = "AuthCallback"]_vars

\* C14 witness: the page was loaded on /dashboard, App's probe failed, and
\* AuthCallback has mounted and issued the second GET /auth/me.
C14_Witness ==
    /\ meCalls = <<"App", "AuthCallback">>
    /\ slast.op = "probeFailed"
    /\ callback.state = "probe"
    /\ route = "/dashboard"

\* C15: once a credential login has succeeded with (user, token), and until the
\* next session operation, the session is Authenticated with that user, the
\* session_token cookie holds the token and the default Authorization header
\* is 'Bearer <token>'.
C15_LoginAdoptsToken ==
    slast.op = "loginOk" =>
        /\ SessionState = "Authenticated"
        /\ user = slast.user
        /\ slast.token \in Tokens
        /\ sessionToken = slast.token
        /\ cookie = slast.token
        /\ authHeader = <<"Bearer", slast.token>>

\* C15 witness: the login form was answered with user u1 and token tok2 and
\* the Dashboard is rendered.
C15_Witness ==
    /\ slast = SDid("loginOk", "Successfully logged in!", "u1", "tok2")
    /\ CurrentView = "Dashboard"
    /\ route = "/dashboard"
    /\ authHeader = <<"Bearer", "tok2">>

\* C16: a credential login that fails changes no session state: the user, the
\* token, the cookie and the Authorization header keep their values, and so do
\* the session state and the location.
C16_FailedLoginChangesNothing ==
    [][(loginReq # "none" /\ slast'.op = "loginFailed" /\ loginReq' = "none") =>
          /\ UNCHANGED <<user, sessionToken, cookie, authHeader, loading, route, fragment>>
          /\ SessionState' = SessionState]_vars

\* C16 witness: the login request failed without a detail while a cookie from
\* an earlier visit was present; the cookie is still there and the Landing
\* page is still rendered.
C16_Witness ==
    /\ slast.op = "loginFailed"
    /\ slast.toast = "Authentication failed"
    /\ cookie = "tok1"
    /\ CurrentView = "Landing"
    /\ loginReq = "none"

\* fragment f contains session_id=<v>: v is a non-empty run without '&' that
\* follows "session_id=" and ends at the end of f or before an '&'
HoldsSessionId(f, v) ==
    \E i \in DOMAIN f :
        /\ f[i] = "session_id="
        /\ Len(v) >= 1
        /\ i + Len(v) <= Len(f)
        /\ SubSeq(f, i + 1, i + Len(v)) = v
        /\ "&" \notin Range(v)
        /\ i + Len(v) = Len(f) \/ f[i + Len(v) + 1] = "&"

\* C17: while AuthCallback awaits the exchange, exactly one POST
\* /auth/session-data has been issued and its X-Session-ID header is the
\* session_id the fragment holds; once the exchange has succeeded the fragment
\* is empty and the session is Authenticated, and no second exchange is issued.
C17_ExchangeOnceThenClear ==
    /\ Len(exchangeCalls) <= 1
    /\ callback.state = "exchange" =>
          /\ exchangeCalls = <<callback.sessionId>>
          /\ HoldsSessionId(fragment, callback.sessionId)
    /\ slast.op = "exchangeOk" =>
          /\ Len(exchangeCalls) = 1
          /\ fragment = <<>>
          /\ SessionState = "Authenticated"
          /\ callback = Unmounted

\* C17 witness: the page was loaded with #session_id=a&x, the exchange was
\* sent with X-Session-ID: a and succeeded; the Dashboard is rendered.
C17_Witness ==
    /\ slast.op = "exchangeOk"
    /\ exchangeCalls = << <<"a">> >>
    /\ fragment = <<>>
    /\ user = slast.user
    /\ CurrentView = "Dashboard"

\* C18 as claimed: when AuthCallback's own probe resumes, a success makes the
\* session Authenticated with the returned user and no token and leaves the
\* cookie and the Authorization header as they were; a failure leaves the
\* session Unauthenticated.
C18_FallbackAsResolve ==
    [][(callback.state = "probe" /\ callback' # callback) =>
          /\ slast'.op = "callbackProbeOk" =>
                /\ SessionState' = "Authenticated"
                /\ user' = slast'.user
                /\ sessionToken' = Null
                /\ cookie' = cookie
                /\ authHeader' = authHeader
          /\ slast'.op # "callbackProbeOk" => SessionState' = "Unauthenticated"]_vars

\* C19: when the exchange fails, its continuation changes no session state
\* (user, token, cookie, Authorization header, session state), sends no
\* further exchange, and redirects to '/'; nothing runs on the page after that.
C19_FailedExchangeRedirects ==
    /\ [][(callback.state = "exchange" /\ slast'.op = "exchangeFailed") =>
            /\ UNCHANGED <<user, sessionToken, cookie, authHeader, loading, exchangeCalls>>
            /\ SessionState' = SessionState
            /\ route' = "/"
            /\ halted']_vars
    /\ [](slast.op = "exchangeFailed" =>
            /\ halted
            /\ route = "/"
            /\ Len(exchangeCalls) = 1
            /\ callback.state # "exchange")

\* C19 witness: the exchange failed while a cookie from an earlier visit was
\* present; the session is Unauthenticated, the cookie is untouched, and the
\* page is being replaced by '/'.
C19_Witness ==
    /\ slast.op = "exchangeFailed"
    /\ slast.toast = "Authentication failed. Please try again."
    /\ SessionState = "Unauthenticated"
    /\ cookie = "tok1"
    /\ authHeader = NoHeader
    /\ route = "/"
    /\ halted

\* C20: once handleLogout has resumed, whether its logout call succeeded or
\* failed, and until the next session operation, the user and the token are
\* null, the cookie is cleared and the Authorization header is removed; the
\* only notice is the one of a successful logout.
C20_LogoutTearsDown ==
    slast.op \in {"logoutOk", "logoutFailed"} =>
        /\ user = Null
        /\ sessionToken = Null
        /\ cookie = NoCookie
        /\ authHeader = NoHeader
        /\ SessionState = "Unauthenticated"
        /\ slast.toast = "Successfully logged out!"

\* C20 witness: a session that held a token from the exchange was logged out
\* and the logout call failed; everything is torn down.
C20_Witness ==
    /\ slast.op = "logoutFailed"
    /\ exchangeCalls # <<>>
    /\ fragment = <<>>
    /\ user = Null
    /\ cookie = NoCookie
    /\ authHeader = NoHeader
    /\ logoutReqs = 0

-----------------------------------------------------------------------------
(* Properties of the App with its Dashboard *)

\* C11 as claimed: when the response to an analyze request arrives after the
\* Dashboard that issued it has left the Submitting state (here: has been
\* unmounted by a logout), it raises no notice and changes none of the file,
\* text, prompt, model, submitting flag, history and active tab.
C11_StaleResponseDiscarded ==
    [][\A o \in orphans :
          (o.kind = "analyze" /\ o \notin orphans') =>
              /\ UNCHANGED last \/ last'.toast = ""
              /\ UNCHANGED <<selectedFile, textInput, analysisForm, analyzing,
                             analyses, activeTab>>]_vars

-----------------------------------------------------------------------------
(* Properties of the Dashboard, continued *)

\* the React state and the requests of the Dashboard, without the record of
\* the last handler and its toast
DashboardState ==
    <<activeTab, prompts, analyses, selectedFile, analysisForm, analyzing, inputMode,
      textInput, analyzeReqs, listReqs, promptsReq, serverAnalyses, downloadReqs, nextReq>>

\* C27: a file input change with a name that does not end in .pdf (compared
\* case-insensitively) changes no state, so the previously selected file
\* stays selected; one with a name that ends in .pdf replaces the selection;
\* so a selected file always has a name that ends in .pdf.
C27_OnlyPdfSelected ==
    /\ [][\A file \in Files :
            FileInputChange(file) =>
                IF endsWith(toLowerCase(file), DotPdf)
                THEN selectedFile' = file /\ last'.toast = ""
                ELSE UNCHANGED DashboardState /\ last'.toast = "Please select a PDF file"]_vars
    /\ [](selectedFile # NoFile => endsWith(toLowerCase(selectedFile), DotPdf))

\* C27 witness: a file was rejected while B.PDF was selected, and B.PDF is
\* still selected.
C27_Witness ==
    /\ last = Did("selectFile", "Please select a PDF file", NoReq)
    /\ selectedFile = <<"B", ".", "P", "D", "F">>

\* C28: an accepted submit issues exactly one request, built from the mode
\* of the moment: in upload mode a multipart POST to /documents/analyze that
\* carries the file and, as analysis_data, the JSON string of exactly
\* prompt_id and ai_model; in text mode a JSON POST to
\* /documents/analyze-text that carries exactly prompt_id, ai_model,
\* text_content and document_name 'Text Input'.
C28_RequestBuiltFromMode ==
    /\ [](\A r \in analyzeReqs :
            IF r.snap.inputMode = "upload"
            THEN r.payload =
                    [url |-> "/documents/analyze",
                     contentType |-> "multipart/form-data",
                     file |-> r.snap.selectedFile,
                     analysis_data |->
                        << <<"prompt_id", r.snap.analysisForm.prompt_id>>,
                           <<"ai_model", r.snap.analysisForm.ai_model>> >>]
            ELSE r.payload =
                    [url |-> "/documents/analyze-text",
                     contentType |-> "application/json",
                     body |-> [prompt_id |-> r.snap.analysisForm.prompt_id,
                               ai_model |-> r.snap.analysisForm.ai_model,
                               text_content |-> r.snap.textInput,
                               document_name |-> "Text Input"]])
    /\ [][(last' # last /\ last'.op = "submit" /\ last'.req # NoReq) =>
            /\ last'.req \notin analyzeReqs
            /\ analyzeReqs' = analyzeReqs \cup {last'.req}
            /\ last'.req.snap.inputMode = inputMode
            /\ last'.req.payload.url =
                  IF inputMode = "upload" THEN "/documents/analyze"
                  ELSE "/documents/analyze-text"]_vars

\* C28 witness: the second request of the page is a text request with the
\* other model, just issued.
C28_Witness ==
    /\ last.op = "submit"
    /\ last.req \in analyzeReqs
    /\ last.req.id = 2
    /\ last.req.payload.url = "/documents/analyze-text"
    /\ last.req.payload.body.ai_model = "claude-4"

\* C29: a change of the textarea stores the text as typed; a text request
\* carries the stored text unmodified as text_content; the trimmed text only
\* decides whether a submit in text mode is accepted.
C29_TextVerbatim ==
    /\ [][\A text \in Texts : TextAreaChange(text) => textInput' = text]_vars
    /\ [](\A r \in analyzeReqs :
            r.snap.inputMode = "text" =>
                r.payload.body.text_content = r.snap.textInput)
    /\ [][(last' # last /\ last'.op = "submit" /\ inputMode = "text") =>
            /\ last'.req # NoReq <=>
                  (trim(textInput) # <<>> /\ analysisForm.prompt_id # "")
            /\ last'.req # NoReq => last'.req.payload.body.text_content = textInput
            /\ textInput' = textInput]_vars

\* C29 witness: a request is in flight whose text starts with a line break,
\* sent with the line break.
C29_Witness ==
    \E r \in analyzeReqs :
        /\ r.snap.inputMode = "text"
        /\ r.payload.body.text_content = <<"\n", "x">>
        /\ trim(r.payload.body.text_content) # r.payload.body.text_content

\* a step of handleCopyResponse or of handleDownloadAnalysis
SideChannel ==
    \/ \E analysisId \in HistoryCards : handleCopyResponse(analysisId)
    \/ \E analysisId \in HistoryCards : handleDownloadAnalysis(analysisId)
    \/ \E i \in DOMAIN downloadReqs, outcome \in Outcomes : DownloadResponse(i, outcome)

\* C30: copy and download are outside the submission state machine. Whether
\* a submission is in flight or not, every card of the history tab can be
\* copied and downloaded and every download in flight can complete or fail;
\* these steps leave the submitting flag, the file, the text, the prompt and
\* model, the mode, the history and the analyze requests unchanged; and a
\* download in flight does not keep a valid submit from being issued.
C30_SideChannel ==
    /\ [](\A analysisId \in HistoryCards :
            /\ ENABLED handleCopyResponse(analysisId)
            /\ Len(downloadReqs) < MaxDownloads => ENABLED handleDownloadAnalysis(analysisId))
    /\ [](\A i \in DOMAIN downloadReqs :
            /\ ENABLED DownloadResponse(i, "ok")
            /\ \A outcome \in {"detail", "nodetail"} : ENABLED DownloadResponse(i, outcome))
    /\ [][SideChannel =>
            UNCHANGED <<analyzing, selectedFile, textInput, analysisForm, inputMode,
                        analyses, analyzeReqs, nextReq>>]_vars
    /\ []((activeTab = "analyze" /\ Submittable /\ ~analyzing /\ nextReq <= MaxRequests) =>
            ENABLED (ClickAnalyzeBtn /\ analyzing'))

\* C30 witness: a download has just completed while the second submission of
\* the page is in flight.
C30_Witness ==
    /\ last.op = "downloadOk"
    /\ analyzing
    /\ \E r \in analyzeReqs : r.id = 2

(* Properties of the session, continued *)

\* C21 as claimed: a logout invoked while an earlier logout is still in flight,
\* or while the session is already Unauthenticated, issues no logout call; and
\* after every resumed logout the user, token, cookie and header are cleared.
C21_LogoutIdempotent ==
    /\ [][(logoutClicks' # logoutClicks /\ (logoutReqs > 0 \/ user = Null)) =>
            logoutReqs' = logoutReqs]_vars
    /\ [](slast.op \in {"logoutOk", "logoutFailed"} =>
            /\ user = Null
            /\ sessionToken = Null
            /\ cookie = NoCookie
            /\ authHeader = NoHeader)

\* the server accepts a request by a session_token cookie or a Bearer header
\* that holds a token it issued
ValidCredential(c, h) == c \in Tokens \/ \E t \in Tokens : h = <<"Bearer", t>>

\* C23 as claimed: whenever the user is non-null and the client holds a
\* session_token cookie or an Authorization header, at least one of the two
\* holds a token the server issued.
C23_CredentialActive ==
    (user # Null /\ (cookie # NoCookie \/ authHeader # NoHeader)) =>
        ValidCredential(cookie, authHeader)

-----------------------------------------------------------------------------
\* C26: whenever the session token in memory is non-null, the cookie holds
\* that token and the default Authorization header is 'Bearer <token>'; the
\* three are written together: a step that changes one of them is a login
\* that writes all three from one token, or a logout that clears all three.
C26_TokenMirrored ==
    /\ [](sessionToken # Null =>
            /\ cookie = sessionToken
            /\ authHeader = <<"Bearer", sessionToken>>)
    /\ [][(sessionToken' # sessionToken \/ cookie' # cookie \/ authHeader' # authHeader) =>
            \/ /\ cookie' = TemplateString(sessionToken')
               /\ authHeader' = <<"Bearer", TemplateString(sessionToken')>>
            \/ /\ sessionToken' = Null
               /\ cookie' = NoCookie
               /\ authHeader' = NoHeader]_vars

\* C26 witness: the exchange was answered with token tok2, and the token in
\* memory, the cookie and the header all hold tok2.
C26_Witness ==
    /\ slast = SDid("exchangeOk", "Successfully logged in!", "u1", "tok2")
    /\ sessionToken = "tok2"
    /\ cookie = "tok2"
    /\ authHeader = <<"Bearer", "tok2">>

(* Properties of the App with its Dashboard, continued *)

\* an analyze request is awaiting its answer, from the mounted Dashboard or
\* from one that has been unmounted
AnalyzeInFlight ==
    \/ analyzeReqs # {}
    \/ \E o \in orphans : o.kind = "analyze"

\* C22 as claimed: no logout is started while the Dashboard is Submitting, and
\* no login or logout writes the cookie or the Authorization header while an
\* analyze request is in flight.
C22_NoCredentialWriteInFlight ==
    /\ [][logoutClicks' # logoutClicks => ~analyzing]_vars
    /\ [][(cookie' # cookie \/ authHeader' # authHeader) => ~AnalyzeInFlight]_vars

\* a step of the Dashboard: a user event, or the continuation of one of its
\* requests, also when the Dashboard that issued it is gone
AnalysisOperation ==
    \/ \E tab \in Tabs : SetActiveTab(tab)
    \/ ClickUploadMode
    \/ ClickTextMode
    \/ \E file \in AppFiles : FileInputChange(file)
    \/ \E text \in AppTexts : TextAreaChange(text)
    \/ \E value \in ServerPrompts : PromptSelectChange(value)
    \/ \E value \in AppModels : ModelSelectChange(value)
    \/ ClickAnalyzeBtn
    \/ \E r \in analyzeReqs, outcome \in Outcomes : AnalyzeResponse(r, outcome)
    \/ \E i \in DOMAIN listReqs : ListServe(i) \/ ListResponse(i) \/ ListFailure(i)
    \/ \E ok \in BOOLEAN : PromptsResponse(ok)
    \/ \E analysisId \in HistoryCards : handleCopyResponse(analysisId)
    \/ \E analysisId \in HistoryCards : handleDownloadAnalysis(analysisId)
    \/ \E i \in DOMAIN downloadReqs, outcome \in Outcomes : DownloadResponse(i, outcome)
    \/ \E o \in orphans, outcome \in Outcomes : StaleAnalyzeResponse(o, outcome)
    \/ \E o \in orphans, ok \in BOOLEAN : StaleLoadResponse(o, ok)
    \/ \E o \in orphans, outcome \in Outcomes : StaleDownloadResponse(o, outcome)

\* C24: a step of the Dashboard (file selection, text edit, mode switch,
\* submit and its response, copy, download and its response, prompt and
\* history loads) leaves user, session token, cookie and default
\* Authorization header unchanged; the cookie and the header change only in
\* the step that completes a login or a logout.
C24_OnlySessionWritesCredentials ==
    /\ [][AnalysisOperation => UNCHANGED <<user, sessionToken, cookie, authHeader>>]_vars
    /\ [][(cookie' # cookie \/ authHeader' # authHeader) =>
            slast'.op \in {"loginOk", "exchangeOk", "callbackProbeOk",
                           "logoutOk", "logoutFailed"}]_vars

\* a download has completed for a logged-in user whose token is installed
C24_Witness ==
    /\ last.op = "downloadOk"
    /\ user # Null
    /\ cookie = "tok1"
    /\ authHeader = <<"Bearer", "tok1">>

\* a step in which an analysis operation starts: a file is selected, the text
\* is edited, a submit or a download is requested, or handleAnalyzeDocument
\* calls loadAnalyses after a successful response
OperationStarts ==
    \/ \E file \in AppFiles : FileInputChange(file)
    \/ \E text \in AppTexts : TextAreaChange(text)
    \/ ClickAnalyzeBtn
    \/ \E analysisId \in HistoryCards : handleDownloadAnalysis(analysisId)
    \/ \E r \in analyzeReqs : AnalyzeResponse(r, "ok")
    \/ \E o \in orphans : StaleAnalyzeResponse(o, "ok")

\* C25 as claimed: a Dashboard is rendered, and holds requests of its own,
\* only when the session is resolved and the user is non-null; and no
\* analysis operation (file selection, text edit, submit, download, history
\* load) starts while the session is unresolved or the user is null.
C25_NoOperationUnauthenticated ==
    /\ [](CurrentView = "Dashboard" => ~loading /\ user # Null)
    /\ []((analyzeReqs # {} \/ listReqs # <<>> \/ promptsReq = "sent" \/ downloadReqs # <<>>)
              => ~loading /\ user # Null)
    /\ [][OperationStarts => ~loading /\ user # Null]_vars

-----------------------------------------------------------------------------
(* Properties of edits made while a submission is in flight *)

\* the response to request r leaves in place whatever differs from what r
\* was submitted with
EditsKept(r) ==
    /\ selectedFile # r.snap.selectedFile => selectedFile' = selectedFile
    /\ textInput # r.snap.textInput => textInput' = textInput
    /\ inputMode # r.snap.inputMode => inputMode' = inputMode

\* C32 as claimed: a file selected, a text changed or a mode switched while a
\* submission is in flight is still present after that submission completes,
\* whether it fails or succeeds.
C32_EditsSurviveCompletion ==
    [][\A r \in analyzeReqs, outcome \in Outcomes :
            AnalyzeResponse(r, outcome) => EditsKept(r)]_vars

-----------------------------------------------------------------------------
(* Properties of the submitting flag and the history cache *)

\* C33: the submitting flag of the Dashboard is true exactly when an analyze
\* request it issued has not yet received its response: the flag is raised
\* in the step that issues the request and lowered in the step that receives
\* the response, whatever the outcome.
C33_FlagIffInFlight ==
    /\ [](analyzing <=> analyzeReqs # {})
    /\ [][(analyzeReqs' # analyzeReqs) => (analyzing' <=> analyzeReqs' # {})]_vars
    /\ [][(analyzing' # analyzing) => analyzeReqs' # analyzeReqs]_vars

\* C33 witness: the second request of the page has failed and the flag is
\* down again with no request in flight.
C33_Witness ==
    /\ last.op = "analyzeFailed"
    /\ last.req.id = 2
    /\ ~analyzing
    /\ analyzeReqs = {}

\* C34 as claimed, for list responses handled one after the other: a failed
\* list request leaves the history cache unchanged, and when the cache holds
\* the result of a list request, the response to a request issued before
\* that one does not overwrite it.
C34_NewestListWins ==
    [][\A i \in DOMAIN listReqs :
          /\ ListFailure(i) => analyses' = analyses
          /\ (/\ ListResponse(i)
              /\ last.op = "loadAnalysesOk"
              /\ last.req.id > listReqs[i].after) => analyses' = analyses]_vars

-----------------------------------------------------------------------------
(* Properties of error handling *)



\* the message a handler is to surface for a failing response
Surfaced(outcome, fallback) == IF outcome = "detail" THEN "detail" ELSE fallback

\* a failing login or register request surfaces the detail or the fallback
LoginFailureMessage ==
    \A outcome \in {"detail", "nodetail"}, u \in Users, t \in Tokens :
        FormResponse(outcome, u, t) =>
            slast'.toast = Surfaced(outcome, "Authentication failed")

\* a failing exchange surfaces the detail or the fallback
ExchangeFailureMessage ==
    \A outcome \in {"detail", "nodetail"}, u \in Users, t \in Tokens :
        ExchangeResponse(outcome, u, t) =>
            slast'.toast = Surfaced(outcome, "Authentication failed. Please try again.")

\* a failing submit surfaces the detail or the fallback
SubmitFailureMessage ==
    \A outcome \in {"detail", "nodetail"}, r \in analyzeReqs :
        AnalyzeResponse(r, outcome) =>
            last'.toast = Surfaced(outcome, "Analysis failed")

\* a failing download surfaces the detail or the fallback
DownloadFailureMessage ==
    \A outcome \in {"detail", "nodetail"}, i \in DOMAIN downloadReqs :
        DownloadResponse(i, outcome) =>
            last'.toast = Surfaced(outcome, "Failed to download analysis")

\* C31 as claimed: for every failing login, register, exchange, submit and
\* download request, the message surfaced is the server's detail when the
\* response carries one, and the handler's fallback string otherwise.
C31_FailureMessage ==
    [][/\ LoginFailureMessage
       /\ ExchangeFailureMessage
       /\ SubmitFailureMessage
       /\ DownloadFailureMessage]_vars

====
